---- MODULE Spec2Model ----
(***************************************************************************)
(* Model of geminicli: the hard-exclusion rule table and FindingsFilter     *)
(* (src/geminicli/findings_filter.py) and parse_json_with_fallbacks         *)
(* (src/geminicli/json_parser.py).                                          *)
(*                                                                          *)
(* Python str values are TLA+ strings; TLC evaluates Len, \o and SubSeq on  *)
(* them, so a character is SubSeq(s, i, i).                                 *)
(***************************************************************************)
EXTENDS Integers, Sequences, FiniteSets, TLC

VARIABLES
  \* get_exclusion_reason applied to one finding
  finding, rpc, reason,
  \* one FindingsFilter engine and its filter_findings calls
  use_hard_exclusions, heap, findings, fpc, kept, excluded, stats, summary,
  \* parse_json_with_fallbacks applied to one text, received in fragments
  text, received, dpc, ok, value, tried

ruleVars == <<finding, rpc, reason>>
filterVars == <<use_hard_exclusions, heap, findings, fpc, kept, excluded, stats, summary>>
decodeVars == <<text, received, dpc, ok, value, tried>>
vars == <<ruleVars, filterVars, decodeVars>>

-----------------------------------------------------------------------------
(* Python values held in a finding's fields. *)

Str(s) == [t |-> "str", v |-> s]
Null == [t |-> "NoneType", v |-> ""]
Int5 == [t |-> "int", v |-> "5"]
\* marks a key the dict does not hold (never stored in a dict)
ABSENT == [t |-> "absent", v |-> ""]

EmptyDict == [k \in {} |-> 0]

\* dict.get(key, default)
Get(d, key, default) == IF key \in DOMAIN d THEN d[key] ELSE default

-----------------------------------------------------------------------------
(* str methods and the two regex shapes the rule table uses. *)

CharAt(s, i) == SubSeq(s, i, i)

UPPER == "ABCDEFGHIJKLMNOPQRSTUVWXYZ"
LOWER == "abcdefghijklmnopqrstuvwxyz"

LowerChar(c) ==
  IF \E i \in 1..Len(UPPER) : CharAt(UPPER, i) = c
  THEN CharAt(LOWER, CHOOSE i \in 1..Len(UPPER) : CharAt(UPPER, i) = c)
  ELSE c

RECURSIVE MapChars(_, _, _)
\* s with every character c replaced by: LowerChar(c) (how = "lower"),
\* "_" for "-" (how = "dash")
MapChars(how, s, i) ==
  IF i > Len(s) THEN ""
  ELSE LET c == CharAt(s, i)
           d == IF how = "lower" THEN LowerChar(c)
                ELSE IF c = "-" THEN "_" ELSE c
       IN d \o MapChars(how, s, i + 1)

\* str.lower()
Lower(s) == MapChars("lower", s, 1)

\* str.replace("-", "_")
ReplaceDash(s) == MapChars("dash", s, 1)

\* sub in s
Contains(s, sub) ==
  \E off \in 1..(Len(s) - Len(sub) + 1) : SubSeq(s, off, off + Len(sub) - 1) = sub

\* s.endswith(suffix)
EndsWith(s, suffix) ==
  /\ Len(s) >= Len(suffix)
  /\ SubSeq(s, Len(s) - Len(suffix) + 1, Len(s)) = suffix

\* One alternative of a pattern matches s at offset off. "." in an
\* alternative is the regex wildcard: any character but a newline.
MatchAt(alt, s, off) ==
  \A k \in 1..Len(alt) :
    LET p == CharAt(alt, k)
        c == CharAt(s, off + k - 1)
    IN IF p = "." THEN c # "\n" ELSE p = c

\* pattern.search(s) is not None, for a pattern compiled with re.IGNORECASE
\* from lower-case alternatives joined by "|"; l is Lower(s), which the
\* callers compute once for all the patterns they try on s
search(pattern, l) ==
  \E a \in 1..Len(pattern) :
    \E off \in 1..(Len(l) - Len(pattern[a]) + 1) : MatchAt(pattern[a], l, off)

-----------------------------------------------------------------------------
(* HardExclusionRules *)

DOS_PATTERNS ==
  << "denial.of.service", "dos.attack", "resource.exhaust", "cpu.exhaust",
     "memory.exhaust", "bandwidth.exhaust", "disk.exhaust" >>

RATE_LIMITING_PATTERNS ==
  << "rate.limit", "throttl", "brute.force.protection", "request.flood" >>

RESOURCE_PATTERNS ==
  << "memory.leak", "file.descriptor.leak", "resource.leak",
     "unclosed.resource", "connection.leak" >>

OPEN_REDIRECT_PATTERNS ==
  << "open.redirect", "unvalidated.redirect" >>

MEMORY_SAFETY_PATTERNS ==
  << "buffer.overflow", "use.after.free", "out.of.bounds",
     "heap.overflow", "stack.overflow", "dangling.pointer" >>

REGEX_INJECTION_PATTERNS ==
  << "regex.injection", "regexp.injection", "redos", "regex.dos" >>

LOG_SPOOFING_PATTERNS ==
  << "log.spoofing", "log.injection", "log.forging" >>

MISSING_AUDIT_LOG_PATTERNS ==
  << "audit.log", "missing.log", "insufficient.log" >>

HARDENING_PATTERNS ==
  << "lack.of.hardening", "missing.hardening", "should.implement",
     "recommended.to.add", "best.practice" >>

\* MEMORY_SAFE_LANGS.search(file_path) is not None: r"\.(rs|go)$" with
\* re.IGNORECASE; "$" matches at the end and before one trailing newline
MEMORY_SAFE_LANGS(file_path) ==
  LET l == Lower(file_path)
      stem == IF EndsWith(l, "\n") THEN SubSeq(l, 1, Len(l) - 1) ELSE l
  IN \/ EndsWith(l, ".rs") \/ EndsWith(l, ".go")
     \/ EndsWith(stem, ".rs") \/ EndsWith(stem, ".go")

EXCLUDED_CATEGORIES ==
  { "dos", "denial_of_service", "rate_limiting", "resource_exhaustion",
    "memory_leak", "regex_injection", "regex_dos", "log_spoofing",
    "open_redirect", "missing_audit_log" }

test_patterns ==
  << "/test/", "/tests/", "/spec/", "/specs/", "_test.", ".test.", ".spec.",
     "test_", "_spec." >>

\* _is_test_file(file_path), for a str file_path
_is_test_file(file_path) ==
  LET lower == Lower(file_path)
  IN \E i \in 1..Len(test_patterns) : Contains(lower, test_patterns[i])

doc_suffixes == << ".md", ".rst", ".txt", ".adoc" >>

\* file_path.endswith((".md", ".rst", ".txt", ".adoc"))
IsDocFile(file_path) ==
  \E i \in 1..Len(doc_suffixes) : EndsWith(file_path, doc_suffixes[i])

\* What a call of get_exclusion_reason ends with: a reason string, None,
\* or an exception.
Reason(r) == [kind |-> "str", val |-> r]
NoReason == [kind |-> "None", val |-> ""]
Raises(exc) == [kind |-> "raise", val |-> exc]

\* the category without .replace("-", "_")
NormalizeCategory_LowerOnly(s) == Lower(s)

\* category = finding.get("category", "").lower().replace("-", "_")
NormalizeCategory(s) == ReplaceDash(Lower(s))

\* The description rules, in the order of the if-chain (lines 101-116).
DescriptionRules ==
  << [pattern |-> DOS_PATTERNS, label |-> "dos_pattern"],
     [pattern |-> RATE_LIMITING_PATTERNS, label |-> "rate_limiting_pattern"],
     [pattern |-> RESOURCE_PATTERNS, label |-> "resource_leak_pattern"],
     [pattern |-> OPEN_REDIRECT_PATTERNS, label |-> "open_redirect_pattern"],
     [pattern |-> REGEX_INJECTION_PATTERNS, label |-> "regex_injection_pattern"],
     [pattern |-> LOG_SPOOFING_PATTERNS, label |-> "log_spoofing_pattern"],
     [pattern |-> MISSING_AUDIT_LOG_PATTERNS, label |-> "missing_audit_log_pattern"],
     [pattern |-> HARDENING_PATTERNS, label |-> "hardening_best_practice"] >>

\* Lines 118-129 with line 118 an "or": either condition alone excludes
FileRules_EitherCondition(l, file_path) ==
  IF search(MEMORY_SAFETY_PATTERNS, l) THEN Reason("memory_safety_in_safe_language")
  ELSE IF file_path.t # "str" THEN Raises("TypeError")
  ELSE IF MEMORY_SAFE_LANGS(file_path.v) THEN Reason("memory_safety_in_safe_language")
  ELSE IF _is_test_file(file_path.v) THEN Reason("test_file_only")
  ELSE IF IsDocFile(file_path.v) THEN Reason("documentation_file")
  ELSE NoReason

\* Lines 118-129: the rules that read file_path; l is the description in
\* lower case. re.search and str.lower raise on a value that is not a str.
FileRules(l, file_path) ==
  IF search(MEMORY_SAFETY_PATTERNS, l) /\ file_path.t # "str"
    THEN Raises("TypeError")
  ELSE IF search(MEMORY_SAFETY_PATTERNS, l) /\ MEMORY_SAFE_LANGS(file_path.v)
    THEN Reason("memory_safety_in_safe_language")
  ELSE IF file_path.t # "str" THEN Raises("AttributeError")
  ELSE IF _is_test_file(file_path.v) THEN Reason("test_file_only")
  ELSE IF IsDocFile(file_path.v) THEN Reason("documentation_file")
  ELSE NoReason

RECURSIVE DescriptionChain(_, _, _)
\* Lines 101-116 from rule i on, then lines 118-129.
DescriptionChain(i, l, file_path) ==
  IF i > Len(DescriptionRules) THEN FileRules(l, file_path)
  ELSE IF search(DescriptionRules[i].pattern, l)
    THEN Reason(DescriptionRules[i].label)
  ELSE DescriptionChain(i + 1, l, file_path)

\* HardExclusionRules.get_exclusion_reason(finding)
get_exclusion_reason(f) ==
  LET raw == Get(f, "category", Str(""))
      description == Get(f, "description", Str(""))
      file_path == Get(f, "file", Str(""))
  IN IF raw.t # "str" THEN Raises("AttributeError")
     ELSE LET category == NormalizeCategory(raw.v)
          IN IF category \in EXCLUDED_CATEGORIES
               THEN Reason("excluded_category:" \o category)
             ELSE IF description.t # "str" THEN Raises("TypeError")
             ELSE DescriptionChain(1, Lower(description.v), file_path)

-----------------------------------------------------------------------------
(* The findings the rule table is applied to. *)

\* how many phrases a description is made of, at most
MaxPhrases == 2

\* One phrase per description pattern, upper and lower case, the wildcard
\* position held by different characters; listed against the rule order so
\* that the position of a phrase in the text is not its rule's priority.
Phrases ==
  << "SQL injection", "Buffer Overflow", "best-practice", "audit log",
     "Log_Injection", "ReDoS", "open redirect", "memory leak", "rate-limit",
     "DoS attack" >>

RECURSIVE JoinPhrases(_, _)
\* the phrases whose index is in S, in the order of Phrases, joined by "; "
JoinPhrases(S, i) ==
  IF i > Len(Phrases) THEN ""
  ELSE LET rest == JoinPhrases(S, i + 1)
       IN IF i \notin S THEN rest
          ELSE IF rest = "" THEN Phrases[i]
          ELSE Phrases[i] \o "; " \o rest

DescriptionValues ==
  { Str(JoinPhrases(S, 1)) :
      S \in { T \in SUBSET (1..Len(Phrases)) : Cardinality(T) <= MaxPhrases } }
  \cup { ABSENT, Null }

CategoryValues ==
  { ABSENT, Str("sqli"), Str("DOS"), Str("Rate-Limiting"), Str("rate_limiting"),
    Str("rate-limiting"), Null }

FileValues ==
  { ABSENT, Str("app.py"), Str("lib.rs"), Str("main.GO"), Str("test_app.py"),
    Str("tests/lib.rs"), Str("README.md"), Null }

\* {key: v} when the key is present
Field(key, v) == IF v = ABSENT THEN EmptyDict ELSE (key :> v)

\* a finding dict with the three fields the rules read
Finding(c, d, f) ==
  Field("category", c) @@ Field("description", d) @@ Field("file", f)

RuleInputs ==
  { Finding(c, d, f) : c \in CategoryValues, d \in DescriptionValues, f \in FileValues }

-----------------------------------------------------------------------------
(* Idle values of the three groups of variables. *)

RulesIdle == finding = EmptyDict /\ rpc = "idle" /\ reason = NoReason

FilterIdle ==
  /\ use_hard_exclusions = TRUE /\ heap = EmptyDict /\ findings = <<>>
  /\ fpc = "idle" /\ kept = <<>> /\ excluded = <<>>
  /\ stats = EmptyDict /\ summary = EmptyDict

DecodeIdle ==
  /\ text = "" /\ received = 0 /\ dpc = "idle"
  /\ ok = FALSE /\ value = <<"None">> /\ tried = <<>>

-----------------------------------------------------------------------------
(* get_exclusion_reason applied to one finding. *)

RulesInit ==
  /\ finding \in RuleInputs /\ rpc = "input" /\ reason = NoReason
  /\ FilterIdle /\ DecodeIdle

Classify ==
  /\ rpc = "input"
  /\ reason' = get_exclusion_reason(finding)
  /\ rpc' = "done"
  /\ UNCHANGED <<finding, filterVars, decodeVars>>

RulesNext == Classify

SpecRules == RulesInit /\ [][RulesNext]_vars

-----------------------------------------------------------------------------
(* FindingsFilter: one engine, called again and again by its caller.        *)
(*                                                                          *)
(* heap maps an object id to the dict it holds; findings, kept and excluded *)
(* are lists of object ids, so that two lists can hold the same object.     *)
(* stats is the FilterStats object of the last call that returned, which    *)
(* its caller still holds while the next call runs; runtime_seconds (a      *)
(* clock reading) is left out of it.                                        *)

\* how many findings one call is given, at most
MaxFindings == 3

\* The findings a caller passes.
FilterInputs ==
  { "category" :> Str("dos") @@ "description" :> Str("x"),
    "category" :> Str("sqli") @@ "file" :> Str("app.py")
      @@ "description" :> Str("SQL injection via unescaped input"),
    "description" :> Str("Buffer overflow in parser") @@ "file" :> Str("lib.rs")
      @@ "severity" :> Str("HIGH") @@ "line" :> Int5,
    "category" :> Str("Rate-Limiting") @@ "description" :> Str("x")
      @@ "file" :> Str("app.py") @@ "exclusion_reason" :> Str("stale"),
    "category" :> Null @@ "description" :> Str("x") @@ "file" :> Str("app.py"),
    EmptyDict }

\* get_exclusion_reason on the caller's findings, evaluated once
ReasonTable == [d \in FilterInputs |-> get_exclusion_reason(d)]

\* self._hard_rules.get_exclusion_reason(finding)
hard_rules(d) == IF d \in FilterInputs THEN ReasonTable[d] ELSE get_exclusion_reason(d)

\* FilterStats with exclusion_breakdown a default shared by every instance
\* (a mutable default in place of field(default_factory=dict))
FilterStats_SharedBreakdown(n) ==
  [total_findings |-> n, hard_excluded |-> 0, kept_findings |-> 0,
   exclusion_breakdown |-> Get(stats, "exclusion_breakdown", EmptyDict)]

\* FilterStats(total_findings=n)
FilterStats(n) ==
  [total_findings |-> n, hard_excluded |-> 0, kept_findings |-> 0,
   exclusion_breakdown |-> EmptyDict]

\* Lines 179-185 without finding = dict(finding): the reason is written
\* into the caller's object, which is what excluded then holds
Exclude_InPlace(acc, id, r) ==
  [acc EXCEPT
     !.heap[id] = ("exclusion_reason" :> Str(r)) @@ @,
     !.excluded = Append(@, id),
     !.stats.hard_excluded = @ + 1,
     !.stats.exclusion_breakdown = (r :> (Get(@, r, 0) + 1)) @@ @]

\* Lines 179-185: the copy tagged with the reason, appended to excluded, and
\* the two counters.
Exclude(acc, id, r) ==
  LET copy == Len(acc.heap) + 1
      tagged == ("exclusion_reason" :> Str(r)) @@ acc.heap[id]
  IN [acc EXCEPT
        !.heap = Append(@, tagged),
        !.excluded = Append(@, copy),
        !.stats.hard_excluded = @ + 1,
        !.stats.exclusion_breakdown = (r :> (Get(@, r, 0) + 1)) @@ @]

\* The loop body without the continue of line 186: the tagged copy, which
\* finding now names, is appended to kept as well
LoopBody_NoContinue(acc, id) ==
  IF use_hard_exclusions
    THEN LET r == hard_rules(acc.heap[id])
         IN IF r.kind = "raise" THEN [acc EXCEPT !.raised = r.val]
            ELSE IF r.kind = "str" /\ r.val # ""
              THEN LET a == Exclude(acc, id, r.val)
                   IN [a EXCEPT !.kept = Append(@, Len(a.heap))]
            ELSE [acc EXCEPT !.kept = Append(@, id)]
    ELSE [acc EXCEPT !.kept = Append(@, id)]

\* The loop body without the test of self.use_hard_exclusions (line 176)
LoopBody_FlagIgnored(acc, id) ==
  LET r == hard_rules(acc.heap[id])
  IN IF r.kind = "raise" THEN [acc EXCEPT !.raised = r.val]
     ELSE IF r.kind = "str" /\ r.val # "" THEN Exclude(acc, id, r.val)
     ELSE [acc EXCEPT !.kept = Append(@, id)]

\* Lines 176-187: the body of the loop for the finding with this id. An
\* exception of get_exclusion_reason ends the call.
LoopBody(acc, id) ==
  IF use_hard_exclusions
    THEN LET r == hard_rules(acc.heap[id])
         IN IF r.kind = "raise" THEN [acc EXCEPT !.raised = r.val]
            ELSE IF r.kind = "str" /\ r.val # "" THEN Exclude(acc, id, r.val)
            ELSE [acc EXCEPT !.kept = Append(@, id)]
    ELSE [acc EXCEPT !.kept = Append(@, id)]

RECURSIVE Loop(_, _)
\* for finding in findings, from index i on
Loop(acc, i) ==
  IF i > Len(findings) \/ acc.raised # "" THEN acc
  ELSE Loop(LoopBody(acc, findings[i]), i + 1)

\* Lines 192-202: result["analysis_summary"]
Summary(st, excl) ==
  [total_findings |-> st.total_findings, kept_findings |-> st.kept_findings,
   excluded_findings |-> Len(excl), exclusion_breakdown |-> st.exclusion_breakdown]

\* FindingsFilter(use_hard_exclusions=b)
FilterInit ==
  /\ use_hard_exclusions \in BOOLEAN
  /\ heap = <<>> /\ findings = <<>> /\ fpc = "input"
  /\ kept = <<>> /\ excluded = <<>> /\ stats = EmptyDict /\ summary = EmptyDict
  /\ RulesIdle /\ DecodeIdle

\* The caller puts a new finding on the list it is going to pass.
CallerAppend ==
  /\ fpc = "input" /\ Len(findings) < MaxFindings
  /\ \E d \in FilterInputs :
       /\ heap' = Append(heap, d)
       /\ findings' = Append(findings, Len(heap) + 1)
  /\ UNCHANGED <<use_hard_exclusions, fpc, kept, excluded, stats, summary,
                 ruleVars, decodeVars>>

\* The caller puts a finding that is on the list already on it once more.
CallerRepeat ==
  /\ fpc = "input" /\ Len(findings) < MaxFindings
  /\ \E id \in DOMAIN heap : findings' = Append(findings, id)
  /\ UNCHANGED <<use_hard_exclusions, heap, fpc, kept, excluded, stats, summary,
                 ruleVars, decodeVars>>

\* filter_findings(findings): returns (True, result, stats), or raises.
filter_findings ==
  /\ fpc = "input"
  /\ LET acc0 == [heap |-> heap, kept |-> <<>>, excluded |-> <<>>,
                  stats |-> FilterStats(Len(findings)), raised |-> ""]
         acc == Loop(acc0, 1)
         st == [acc.stats EXCEPT !.kept_findings = Len(acc.kept)]
     IN IF acc.raised # ""
          THEN /\ fpc' = "raised"
               \* the copies made so far are dropped with the call's frame
               /\ heap' = SubSeq(acc.heap, 1, Len(heap))
               /\ UNCHANGED <<kept, excluded, stats, summary>>
          ELSE /\ fpc' = "returned"
               /\ heap' = acc.heap
               /\ kept' = acc.kept
               /\ excluded' = acc.excluded
               /\ stats' = st
               /\ summary' = Summary(st, acc.excluded)
  /\ UNCHANGED <<use_hard_exclusions, findings, ruleVars, decodeVars>>

\* The caller is done with a call's result and starts the list of the next
\* call; it keeps the FilterStats object it was handed.
NextCall ==
  /\ fpc \in {"returned", "raised"}
  /\ fpc' = "input"
  /\ heap' = <<>> /\ findings' = <<>>
  /\ kept' = <<>> /\ excluded' = <<>> /\ summary' = EmptyDict
  /\ UNCHANGED <<use_hard_exclusions, stats, ruleVars, decodeVars>>

FilterNext == CallerAppend \/ CallerRepeat \/ filter_findings \/ NextCall

SpecFilter == FilterInit /\ [][FilterNext]_vars

-----------------------------------------------------------------------------
(* Claims about filter_findings, checked under SpecFilter. *)

Range(q) == { q[i] : i \in DOMAIN q }

\* the entries of q at the positions in P, in the order of q
RECURSIVE Pick(_, _, _)
Pick(q, P, i) ==
  IF i > Len(q) THEN <<>>
  ELSE IF i \in P THEN <<q[i]>> \o Pick(q, P, i + 1)
  ELSE Pick(q, P, i + 1)

\* dict c is dict d with only the key exclusion_reason set, to a str
TaggedCopy(c, d) ==
  /\ DOMAIN c = DOMAIN d \cup {"exclusion_reason"}
  /\ c["exclusion_reason"].t = "str"
  /\ \A key \in DOMAIN d \ {"exclusion_reason"} : c[key] = d[key]

RECURSIVE SumCounts(_, _)
SumCounts(f, S) ==
  IF S = {} THEN 0
  ELSE LET k == CHOOSE x \in S : TRUE IN f[k] + SumCounts(f, S \ {k})

Sanitized(d) == [key \in DOMAIN d |-> IF d[key].t = "str" THEN d[key] ELSE Str("")]

C3_FilterNeverRaises ==
  /\ fpc # "raised"
  /\ (fpc = "returned" /\ use_hard_exclusions) =>
       \A i \in DOMAIN findings :
         LET want == get_exclusion_reason(Sanitized(heap[findings[i]]))
         IN (want.kind = "None") <=> (findings[i] \in Range(kept))

\* C6: a call on an engine built with use_hard_exclusions=False returns (it
\* does not raise), kept is the input list itself, object by object and in
\* order, no object is changed or made, excluded is empty and the statistics
\* record no exclusion.
C6_DisabledPassesThrough ==
  [][(fpc = "input" /\ fpc' # "input" /\ ~use_hard_exclusions) =>
       /\ fpc' = "returned"
       /\ kept' = findings /\ findings' = findings /\ heap' = heap
       /\ excluded' = <<>>
       /\ stats'.hard_excluded = 0
       /\ stats'.exclusion_breakdown = EmptyDict
       /\ stats'.kept_findings = Len(findings)
       /\ stats'.total_findings = Len(findings)
       /\ summary'.excluded_findings = 0]_vars

\* a disabled engine returned a list with a finding a rule matches
C6_Witness ==
  /\ fpc = "returned" /\ ~use_hard_exclusions
  /\ \E i \in DOMAIN findings : hard_rules(heap[findings[i]]).kind = "str"

\* C7: whenever filter_findings returns, hard_excluded, len(excluded), the
\* summary's excluded_findings and the sum of the breakdown's counts are one
\* number; each breakdown key counts the excluded findings that carry that
\* reason; kept_findings == len(kept); whatever the calls before this one.
C7_StatsConsistent ==
  fpc = "returned" =>
    LET bd == stats.exclusion_breakdown
        carrying(r) ==
          { j \in DOMAIN excluded : heap[excluded[j]]["exclusion_reason"] = Str(r) }
    IN /\ stats.hard_excluded = Len(excluded)
       /\ summary.excluded_findings = Len(excluded)
       /\ SumCounts(bd, DOMAIN bd) = Len(excluded)
       /\ \A r \in DOMAIN bd : bd[r] = Cardinality(carrying(r)) /\ bd[r] > 0
       /\ stats.kept_findings = Len(kept)
       /\ summary.kept_findings = Len(kept)
       /\ summary.total_findings = stats.total_findings
       /\ summary.exclusion_breakdown = bd

\* a call returned with two reasons in the breakdown, one of them twice
C7_Witness ==
  /\ fpc = "returned"
  /\ Cardinality(DOMAIN stats.exclusion_breakdown) >= 2
  /\ \E r \in DOMAIN stats.exclusion_breakdown : stats.exclusion_breakdown[r] = 2

\* C9: a call of filter_findings, returning or raising, leaves the input list
\* and every object of it as they were; when it returns, each kept entry is
\* an object of the input, and each excluded entry is a new object, a copy
\* of an input finding with only exclusion_reason set.
C9_InputUntouched ==
  [][(fpc = "input" /\ fpc' # "input") =>
       /\ findings' = findings
       /\ \A id \in DOMAIN heap : heap'[id] = heap[id]
       /\ fpc' = "returned" =>
            /\ \A k \in DOMAIN kept' : kept'[k] \in Range(findings)
            /\ \A j \in DOMAIN excluded' :
                 /\ excluded'[j] \notin DOMAIN heap
                 /\ \A j2 \in DOMAIN excluded' : excluded'[j2] = excluded'[j] => j2 = j
                 /\ \E id \in Range(findings) :
                      TaggedCopy(heap'[excluded'[j]], heap[id])]_vars

\* a call returned a copy of a finding that had more fields than the rules
\* read, and one of a finding that held an exclusion_reason already
C9_Witness ==
  /\ fpc = "returned"
  /\ \E j \in DOMAIN excluded : "severity" \in DOMAIN heap[excluded[j]]
  /\ \E i \in DOMAIN findings :
       /\ "exclusion_reason" \in DOMAIN heap[findings[i]]
       /\ findings[i] \notin Range(kept)

-----------------------------------------------------------------------------
(* Claims about get_exclusion_reason, checked under SpecRules. *)

\* the text of a field: its value when it is a str, "" when it is absent or
\* not a str
Txt(f, key) ==
  LET x == Get(f, key, Str("")) IN IF x.t = "str" THEN x.v ELSE ""

IsStrOrAbsent(f, key) == Get(f, key, Str("")).t = "str"

HasSafeExtension(path) == EndsWith(Lower(path), ".rs") \/ EndsWith(Lower(path), ".go")

\* The twelve rules in the priority order of the claim, each with the
\* reason it gives.
RuleHolds(i, f) ==
  LET l == Lower(Txt(f, "description"))
      path == Txt(f, "file")
  IN CASE i = 1 -> NormalizeCategory(Txt(f, "category")) \in EXCLUDED_CATEGORIES
       [] i = 2 -> search(DOS_PATTERNS, l)
       [] i = 3 -> search(RATE_LIMITING_PATTERNS, l)
       [] i = 4 -> search(RESOURCE_PATTERNS, l)
       [] i = 5 -> search(OPEN_REDIRECT_PATTERNS, l)
       [] i = 6 -> search(REGEX_INJECTION_PATTERNS, l)
       [] i = 7 -> search(LOG_SPOOFING_PATTERNS, l)
       [] i = 8 -> search(MISSING_AUDIT_LOG_PATTERNS, l)
       [] i = 9 -> search(HARDENING_PATTERNS, l)
       [] i = 10 -> search(MEMORY_SAFETY_PATTERNS, l) /\ HasSafeExtension(path)
       [] i = 11 -> _is_test_file(path)
       [] i = 12 -> IsDocFile(path)

RuleReason(i, f) ==
  CASE i = 1 -> "excluded_category:" \o NormalizeCategory(Txt(f, "category"))
    [] i = 2 -> "dos_pattern"
    [] i = 3 -> "rate_limiting_pattern"
    [] i = 4 -> "resource_leak_pattern"
    [] i = 5 -> "open_redirect_pattern"
    [] i = 6 -> "regex_injection_pattern"
    [] i = 7 -> "log_spoofing_pattern"
    [] i = 8 -> "missing_audit_log_pattern"
    [] i = 9 -> "hardening_best_practice"
    [] i = 10 -> "memory_safety_in_safe_language"
    [] i = 11 -> "test_file_only"
    [] i = 12 -> "documentation_file"

\* what the first rule that holds gives: its reason, or None when none holds
FirstRule(f) ==
  LET M == { i \in 1..12 : RuleHolds(i, f) }
  IN IF M = {} THEN NoReason
     ELSE Reason(RuleReason(CHOOSE i \in M : \A j \in M : i <= j, f))

\* C8 as stated: for every finding the outcome is the reason of the first
\* rule, in the priority order, that the finding satisfies, and the finding
\* is kept (the outcome is None) exactly when it satisfies no rule.
C8_FirstRuleDecides == rpc = "done" => reason = FirstRule(finding)

\* C8 where no rule reads a field that is not a str: whenever
\* get_exclusion_reason returns, it returns what the first rule gives.
C8_FirstRuleDecidesWhenReturning ==
  (rpc = "done" /\ reason.kind # "raise") => reason = FirstRule(finding)

UpperChar(c) ==
  IF \E i \in 1..Len(LOWER) : CharAt(LOWER, i) = c
  THEN CharAt(UPPER, CHOOSE i \in 1..Len(LOWER) : CharAt(LOWER, i) = c)
  ELSE c

RECURSIVE Respell(_, _, _)
\* s in upper case (how = "upper"), with "-" for "_" (how = "dashed")
Respell(how, s, i) ==
  IF i > Len(s) THEN ""
  ELSE LET c == CharAt(s, i)
           d == IF how = "upper" THEN UpperChar(c)
                ELSE IF c = "_" THEN "-" ELSE c
       IN d \o Respell(how, s, i + 1)

\* a and b differ only in letter case and in "-" against "_"
SameButCaseAndSeparator(a, b) ==
  /\ Len(a) = Len(b)
  /\ \A i \in 1..Len(a) :
       LET x == CharAt(a, i)
           y == CharAt(b, i)
       IN \/ LowerChar(x) = LowerChar(y)
          \/ {x, y} \subseteq {"-", "_"}

\* spellings of category c that differ from it only in case and separator
Respellings(c) ==
  { Lower(c), Respell("upper", c, 1), Respell("dashed", c, 1),
    Respell("dashed", Respell("upper", c, 1), 1) }
  \cup { x.v : x \in { y \in CategoryValues :
                         y.t = "str" /\ SameButCaseAndSeparator(y.v, c) } }

\* C5: a finding and the same finding with its category spelled in another
\* case or with the other separator have the same outcome; when the category
\* is such a spelling of a member m of the excluded set, the outcome is the
\* reason excluded_category:m.
C5_CategoryCaseAndSeparator ==
  (rpc = "done" /\ "category" \in DOMAIN finding /\ finding["category"].t = "str") =>
    LET c == finding["category"].v
    IN /\ \A c2 \in Respellings(c) :
            get_exclusion_reason(("category" :> Str(c2)) @@ finding) = reason
       /\ \A m \in EXCLUDED_CATEGORIES :
            SameButCaseAndSeparator(c, m) => reason = Reason("excluded_category:" \o m)

\* a finding of category "Rate-Limiting" was excluded as rate_limiting
C5_Witness ==
  /\ rpc = "done" /\ Get(finding, "category", Null) = Str("Rate-Limiting")
  /\ reason = Reason("excluded_category:rate_limiting")

-----------------------------------------------------------------------------
(* json.loads: the JSON grammar of Python's json module, on the characters  *)
(* a text of this model can hold. A parsed value is <<"str", s>>,           *)
(* <<"int", n>>, <<"lit", name>>, <<"list", <<v1, ...>>>> or <<"dict", f>>  *)
(* with f a function from the keys to their values, and None for null. The  *)
(* escapes \b and     *)
(* \uXXXX and the sign, fraction and exponent of a number are left out: no  *)
(* text here holds "b", "u", "-", "e" or a "." after a digit.               *)

None == <<"None">>

WHITESPACE == {" ", "\t", "\n", "\r"}
DIGITS == "0123456789"
LITERALS == <<"true", "false", "null", "NaN", "Infinity">>

Failed == [ok |-> FALSE, pos |-> 0, val |-> None]
Parsed(p, x) == [ok |-> TRUE, pos |-> p, val |-> x]

RECURSIVE SkipWs(_, _)
SkipWs(s, i) ==
  IF i <= Len(s) /\ CharAt(s, i) \in WHITESPACE THEN SkipWs(s, i + 1) ELSE i

\* the character a backslash escape stands for, "" when it is no escape
Unescape(e) ==
  CASE e = "\"" -> "\"" [] e = "\\" -> "\\" [] e = "/" -> "/"
    [] e = "n" -> "\n" [] e = "t" -> "\t" [] e = "r" -> "\r"
    [] e = "f" -> "\f"
    [] OTHER -> ""

RECURSIVE ScanString(_, _, _)
\* the rest of a string literal from index j on, acc its content so far
ScanString(s, j, acc) ==
  IF j > Len(s) THEN Failed
  ELSE LET c == CharAt(s, j)
       IN IF c = "\"" THEN Parsed(j + 1, <<"str", acc>>)
          ELSE IF c = "\\"
            THEN IF j + 1 > Len(s) \/ Unescape(CharAt(s, j + 1)) = "" THEN Failed
                 ELSE ScanString(s, j + 2, acc \o Unescape(CharAt(s, j + 1)))
          ELSE IF c \in {"\n", "\t", "\r", "\f"} THEN Failed
          ELSE ScanString(s, j + 1, acc \o c)

DigitValue(c) == (CHOOSE k \in 1..Len(DIGITS) : CharAt(DIGITS, k) = c) - 1
IsDigit(c) == \E k \in 1..Len(DIGITS) : CharAt(DIGITS, k) = c

RECURSIVE ScanDigits(_, _, _)
ScanDigits(s, j, n) ==
  IF j <= Len(s) /\ IsDigit(CharAt(s, j))
    THEN ScanDigits(s, j + 1, 10 * n + DigitValue(CharAt(s, j)))
    ELSE Parsed(j, <<"int", n>>)

\* an integer: 0, or a digit from 1 to 9 and more digits
ScanNumber(s, i) ==
  IF CharAt(s, i) = "0" THEN Parsed(i + 1, <<"int", 0>>) ELSE ScanDigits(s, i, 0)

\* the literal k starts at index i
LiteralAt(s, i, k) ==
  /\ i + Len(LITERALS[k]) - 1 <= Len(s)
  /\ SubSeq(s, i, i + Len(LITERALS[k]) - 1) = LITERALS[k]

ScanLiteral(s, i) ==
  IF \E k \in 1..Len(LITERALS) : LiteralAt(s, i, k)
    THEN LET k == CHOOSE k \in 1..Len(LITERALS) : LiteralAt(s, i, k)
         IN Parsed(i + Len(LITERALS[k]),
                   IF LITERALS[k] = "null" THEN None ELSE <<"lit", LITERALS[k]>>)
    ELSE Failed

RECURSIVE ScanValue(_, _), ScanItems(_, _, _), ScanMembers(_, _, _)

\* the value that starts at index i
ScanValue(s, i) ==
  IF i > Len(s) THEN Failed
  ELSE LET c == CharAt(s, i)
       IN IF c = "\"" THEN ScanString(s, i + 1, "")
          ELSE IF c = "{"
            THEN LET j == SkipWs(s, i + 1)
                 IN IF j <= Len(s) /\ CharAt(s, j) = "}"
                      THEN Parsed(j + 1, <<"dict", EmptyDict>>)
                      ELSE ScanMembers(s, j, EmptyDict)
          ELSE IF c = "["
            THEN LET j == SkipWs(s, i + 1)
                 IN IF j <= Len(s) /\ CharAt(s, j) = "]"
                      THEN Parsed(j + 1, <<"list", <<>>>>)
                      ELSE ScanItems(s, j, <<>>)
          ELSE IF IsDigit(c) THEN ScanNumber(s, i)
          ELSE ScanLiteral(s, i)

\* the items of an array from index j on, one value expected at j
ScanItems(s, j, acc) ==
  LET r == ScanValue(s, j)
  IN IF ~r.ok THEN Failed
     ELSE LET k == SkipWs(s, r.pos)
              items == Append(acc, r.val)
          IN IF k > Len(s) THEN Failed
             ELSE IF CharAt(s, k) = "]" THEN Parsed(k + 1, <<"list", items>>)
             ELSE IF CharAt(s, k) = "," THEN ScanItems(s, SkipWs(s, k + 1), items)
             ELSE Failed

\* the members of an object from index j on, one key expected at j; a key
\* met again replaces the value it had
ScanMembers(s, j, acc) ==
  IF j > Len(s) \/ CharAt(s, j) # "\"" THEN Failed
  ELSE LET key == ScanString(s, j + 1, "")
       IN IF ~key.ok THEN Failed
          ELSE LET c == SkipWs(s, key.pos)
               IN IF c > Len(s) \/ CharAt(s, c) # ":" THEN Failed
                  ELSE LET r == ScanValue(s, SkipWs(s, c + 1))
                       IN IF ~r.ok THEN Failed
                          ELSE LET k == SkipWs(s, r.pos)
                                   members == (key.val[2] :> r.val) @@ acc
                               IN IF k > Len(s) THEN Failed
                                  ELSE IF CharAt(s, k) = "}"
                                    THEN Parsed(k + 1, <<"dict", members>>)
                                  ELSE IF CharAt(s, k) = ","
                                    THEN ScanMembers(s, SkipWs(s, k + 1), members)
                                  ELSE Failed

\* json.loads(s): [ok |-> it did not raise JSONDecodeError, val |-> its result]
json_loads(s) ==
  LET r == ScanValue(s, SkipWs(s, 1))
  IN IF r.ok /\ SkipWs(s, r.pos) = Len(s) + 1
       THEN [ok |-> TRUE, val |-> r.val]
       ELSE [ok |-> FALSE, val |-> None]

-----------------------------------------------------------------------------
(* parse_json_with_fallbacks *)

\* how many fragments a text is made of, at most
MaxFragments == 4

\* The code fence marker, three backquotes. A TLA+ string cannot hold a
\* backquote: the apostrophe stands for it, and no text here holds an
\* apostrophe of its own.
FENCE == "'''"

\* What a text is put together from: the characters the decoder tells
\* apart, a letter, a digit, a blank, the two fence openers, and a string
\* literal that holds a brace.
Fragments ==
  { "{", "}", "[", "]", "\"", "\\", "x", "1", " ",
    FENCE, FENCE \o "json", "\"{\"" }

\* str.find(sub, start), indices from 1, 0 when sub is not found
Find(s, sub, start) ==
  LET hits == { i \in start..(Len(s) - Len(sub) + 1) : SubSeq(s, i, i + Len(sub) - 1) = sub }
  IN IF hits = {} THEN 0 ELSE CHOOSE i \in hits : \A j \in hits : i <= j

RECURSIVE RStripEnd(_, _)
RStripEnd(s, j) ==
  IF j >= 1 /\ CharAt(s, j) \in WHITESPACE THEN RStripEnd(s, j - 1) ELSE j

\* str.strip()
Strip(s) == SubSeq(s, SkipWs(s, 1), RStripEnd(s, Len(s)))

\* re.search(opener \s*([\s\S]*?)\s*FENCE, text): the match starts at the
\* first opener that a fence follows, the lazy group ends where only white
\* space is left before the first such fence; group(1).strip(), with found =
\* a match
FencedBlock(t, opener) ==
  LET p == Find(t, opener, 1)
      q == IF p = 0 THEN 0 ELSE Find(t, FENCE, p + Len(opener))
  IN IF q = 0 THEN [found |-> FALSE, candidate |-> ""]
     ELSE [found |-> TRUE, candidate |-> Strip(SubSeq(t, p + Len(opener), q - 1))]

code_block_openers == << FENCE \o "json", FENCE >>

RECURSIVE Strategy2(_, _)
\* Lines 41-50, from pattern k on
Strategy2(t, k) ==
  IF k > Len(code_block_openers) THEN [ok |-> FALSE, val |-> None]
  ELSE LET m == FencedBlock(t, code_block_openers[k])
           r == json_loads(m.candidate)
       IN IF m.found /\ r.ok THEN r ELSE Strategy2(t, k + 1)

\* the pairs with the array tried first
DELIMITERS_ArrayFirst == << <<"[", "]">>, <<"{", "}">> >>

\* Line 53: the (start_char, end_char) pairs in the order they are tried
DELIMITERS == << <<"{", "}">>, <<"[", "]">> >>

\* Line 92: where the for loop over i goes on after a candidate that
\* json.loads rejects; break leaves the loop, which is index n + 1
AfterRejected(i, n) == n + 1

RECURSIVE Scan(_, _, _, _, _, _, _, _)
\* Lines 63-92 from index i on. ok, val: what json.loads made of the
\* candidate that parsed; cands: the candidates handed to json.loads.
Scan(t, start_char, end_char, start_idx, i, depth, in_string, escape_next) ==
  IF i > Len(t) THEN [ok |-> FALSE, val |-> None, cands |-> <<>>]
  ELSE LET char == CharAt(t, i)
           go(d, q, e) == Scan(t, start_char, end_char, start_idx, i + 1, d, q, e)
       IN IF escape_next THEN go(depth, in_string, FALSE)
          ELSE IF char = "\\" /\ in_string THEN go(depth, in_string, TRUE)
          ELSE IF char = "\"" /\ ~escape_next THEN go(depth, ~in_string, escape_next)
          ELSE IF in_string THEN go(depth, in_string, escape_next)
          ELSE IF char = start_char THEN go(depth + 1, in_string, escape_next)
          ELSE IF char = end_char
            THEN IF depth - 1 = 0
                   THEN LET candidate == SubSeq(t, start_idx, i)
                            r == json_loads(candidate)
                            rest == Scan(t, start_char, end_char, start_idx,
                                         AfterRejected(i, Len(t)), depth - 1,
                                         in_string, escape_next)
                        IN IF r.ok
                             THEN [ok |-> TRUE, val |-> r.val, cands |-> <<candidate>>]
                             ELSE [rest EXCEPT !.cands = <<candidate>> \o @]
                   ELSE go(depth - 1, in_string, escape_next)
          ELSE go(depth, in_string, escape_next)

\* the candidates of one delimiter, each with the delimiter it was cut for
Tagged(start_char, cands) ==
  [j \in 1..Len(cands) |-> [start_char |-> start_char, candidate |-> cands[j]]]

RECURSIVE Strategy3(_, _)
\* Lines 53-92, from delimiter pair k on
Strategy3(t, k) ==
  IF k > Len(DELIMITERS) THEN [ok |-> FALSE, val |-> None, tried |-> <<>>]
  ELSE LET start_char == DELIMITERS[k][1]
           end_char == DELIMITERS[k][2]
           start_idx == Find(t, start_char, 1)
       IN IF start_idx = 0 THEN Strategy3(t, k + 1)
          ELSE LET r == Scan(t, start_char, end_char, start_idx, start_idx,
                             0, FALSE, FALSE)
                   mine == Tagged(start_char, r.cands)
               IN IF r.ok THEN [ok |-> TRUE, val |-> r.val, tried |-> mine]
                  ELSE LET next == Strategy3(t, k + 1)
                       IN [next EXCEPT !.tried = mine \o @]

\* parse_json_with_fallbacks(text): (ok, val) is the tuple it returns, tried
\* the candidates its bracket matching handed to json.loads
parse_json_with_fallbacks(t) ==
  IF t = "" \/ Strip(t) = "" THEN [ok |-> FALSE, val |-> None, tried |-> <<>>]
  ELSE LET direct == json_loads(Strip(t))
           fenced == Strategy2(t, 1)
       IN IF direct.ok THEN [ok |-> TRUE, val |-> direct.val, tried |-> <<>>]
          ELSE IF fenced.ok THEN [ok |-> TRUE, val |-> fenced.val, tried |-> <<>>]
          ELSE Strategy3(t, 1)

DecodeInit ==
  /\ text = "" /\ received = 0 /\ dpc = "input"
  /\ ok = FALSE /\ value = None /\ tried = <<>>
  /\ RulesIdle /\ FilterIdle

\* The reply of the model grows by one fragment.
ReceiveFragment ==
  /\ dpc = "input" /\ received < MaxFragments
  /\ \E frag \in Fragments : text' = text \o frag
  /\ received' = received + 1
  /\ UNCHANGED <<dpc, ok, value, tried, ruleVars, filterVars>>

\* parse_json_with_fallbacks(text) is called and returns.
Decode ==
  /\ dpc = "input"
  /\ LET r == parse_json_with_fallbacks(text)
     IN ok' = r.ok /\ value' = r.val /\ tried' = r.tried
  /\ dpc' = "done"
  /\ UNCHANGED <<text, received, ruleVars, filterVars>>

DecodeNext == ReceiveFragment \/ Decode

SpecDecode == DecodeInit /\ [][DecodeNext]_vars

-----------------------------------------------------------------------------
(* Claims about parse_json_with_fallbacks *)

RECURSIVE Outside(_, _, _)
\* The indices of t from i on that lie outside every string literal and are
\* no quote themselves, for a reader that is in state q at index i: "out"
\* outside a string, "in" inside one, "esc" right after a backslash in one.
Outside(t, i, q) ==
  IF i > Len(t) THEN {}
  ELSE LET c == CharAt(t, i)
       IN CASE q = "esc" -> Outside(t, i + 1, "in")
            [] q = "in" -> Outside(t, i + 1, IF c = "\\" THEN "esc"
                                             ELSE IF c = "\"" THEN "out" ELSE "in")
            [] OTHER -> IF c = "\"" THEN Outside(t, i + 1, "in")
                        ELSE {i} \cup Outside(t, i + 1, "out")

\* the bracketed regions of t: from an opening bracket outside every string
\* to a closing one outside every string, with valid JSON in between
Regions(t) ==
  LET out == Outside(t, 1, "out")
  IN { r \in out \X out :
         /\ r[1] < r[2]
         /\ CharAt(t, r[1]) \in {"{", "["}
         /\ CharAt(t, r[2]) \in {"}", "]"}
         /\ json_loads(SubSeq(t, r[1], r[2])).ok }

\* t is prose around exactly one bracketed JSON region: no code fence, and
\* no bracket outside the string literals of t other than those of the region
ProseAroundOneRegion(t) ==
  /\ Cardinality(Regions(t)) = 1
  /\ \A r \in Regions(t) :
       \A i \in Outside(t, 1, "out") :
         CharAt(t, i) \in {"{", "}", "[", "]"} => (r[1] <= i /\ i <= r[2])
  /\ Find(t, FENCE, 1) = 0
  /\ ~json_loads(Strip(t)).ok

\* C2: from prose around exactly one balanced bracketed JSON region, where
\* brackets inside string literals and escaped quotes do not count, the
\* decoder returns success with the value of that region.
C2_QuoteAwareRecovery ==
  (dpc = "done" /\ ProseAroundOneRegion(text)) =>
    LET r == CHOOSE r \in Regions(text) : TRUE
    IN ok /\ value = json_loads(SubSeq(text, r[1], r[2])).val

RECURSIVE FirstBalance(_, _, _, _, _, _)
\* the first index from i on where the depth of opener and closer, counted
\* outside string literals, comes back to zero; 0 when it never does
FirstBalance(t, opener, closer, i, q, d) ==
  IF i > Len(t) THEN 0
  ELSE LET c == CharAt(t, i)
       IN CASE q = "esc" -> FirstBalance(t, opener, closer, i + 1, "in", d)
            [] q = "in" ->
                 FirstBalance(t, opener, closer, i + 1,
                              IF c = "\\" THEN "esc"
                              ELSE IF c = "\"" THEN "out" ELSE "in", d)
            [] OTHER ->
                 IF c = "\"" THEN FirstBalance(t, opener, closer, i + 1, "in", d)
                 ELSE IF c = opener
                   THEN FirstBalance(t, opener, closer, i + 1, "out", d + 1)
                 ELSE IF c = closer
                   THEN IF d = 1 THEN i
                        ELSE FirstBalance(t, opener, closer, i + 1, "out", d - 1)
                 ELSE FirstBalance(t, opener, closer, i + 1, "out", d)

\* the one candidate of a delimiter: from its first occurrence to the first
\* index where its depth is back at zero, <<>> when there is none
OneCandidate(t, opener, closer) ==
  LET s == Find(t, opener, 1)
      e == IF s = 0 THEN 0 ELSE FirstBalance(t, opener, closer, s, "out", 0)
  IN IF e = 0 THEN <<>>
     ELSE << [start_char |-> opener, candidate |-> SubSeq(t, s, e)] >>

\* the text gets as far as the bracket matching
ReachesBrackets(t) ==
  /\ Strip(t) # ""
  /\ ~json_loads(Strip(t)).ok
  /\ ~Strategy2(t, 1).ok

====
